---- MODULE Spec2Model ----
(***************************************************************************)
(* A model of the multi-message reply orchestration of the Niya chat       *)
(* front end: the WhatsAppChat component (turn life cycle, reveal loop,    *)
(* fallback), the chatApi gateway (sendMessage normalisation, the demo     *)
(* branch of sendMessageMulti, sendMessageStream) and the ChatInterface    *)
(* component.                                                              *)
(*                                                                         *)
(* One step of the model is one macrotask of the browser's event loop: a   *)
(* click, the resolution of a fetch, the expiry of a timer, together with  *)
(* every microtask (await continuation) that follows it.                   *)
(***************************************************************************)
EXTENDS Integers, Sequences, FiniteSets, TLC

\* ------------------------------------------------------------------------
\* Bounds of the model
\* ------------------------------------------------------------------------
MaxTurns == 2
MaxFrag == 2
MaxLen == 3

\* ------------------------------------------------------------------------
\* Program constants
\* ------------------------------------------------------------------------
InterMessageDelay == 1500
MaxTypingDelay == 3000
MsPerChar == 50
DemoMinCount == 2
DemoRange == 3

\* One tick of the model's clock is one inter-message delay.
TickMs == InterMessageDelay

Min(a, b) == IF a < b THEN a ELSE b

Turns == 1..MaxTurns

\* Lengths (in UTF-16 units) of the canned demoResponses of sendMessageMulti.
demoResponses == <<71, 101, 65, 77, 59>>

\* Content lengths the real backend's fragments are drawn from.
ContentLens == {0, 30, 60}

\* Math.floor(Math.random() * 3) + 2
DemoCounts == DemoMinCount..(DemoMinCount + DemoRange - 1)

VARIABLES
    messages,     \* the Message Store (useState<Message[]>)
    isSending,    \* the typing flag
    isDemoMode,   \* the demo-mode flag
    isLoading,    \* the loading flag of initializeChat
    currentChat,  \* "none", "real" or "demo" (an id starting with demo-chat-)
    token,        \* localStorage authToken: "real" or "demo" (demo-token-...)
    initPc,       \* position of initializeChat: "start", "creating", "ready"
    turns,        \* per user turn: the position of its sendMessage call
    raw,          \* a JSON body answered to chatApi.sendMessage
    result,       \* what chatApi.sendMessage made of it
    message,      \* the draft in the input field (useState(''))
    mounted,      \* the component on screen: "WhatsAppChat" or "ChatInterface"
    selectedExpert, \* ChatInterface: '' until the mount effect has run
    isTyping,     \* ChatInterface: the typing flag
    aiTimer,      \* ChatInterface: the simulated reply's timer is pending
    call          \* one call of a chatApi transport, seen from its caller

\* The state of ChatInterface that WhatsAppChat does not have.
ciVars == <<mounted, selectedExpert, isTyping, aiTimer>>

vars == <<messages, isSending, isDemoMode, isLoading, currentChat, token,
          initPc, turns, raw, result, message, ciVars, call>>

\* ------------------------------------------------------------------------
\* Messages
\* ------------------------------------------------------------------------
\* A Message: turn and src stand for its id and content; the other fields are
\* the optional sequence fields of the Message type (absent = FALSE / 0).
PlainMessage(t, role, src, k) ==
    [turn |-> t, role |-> role, src |-> src, k |-> k,
     isMultiMessage |-> FALSE, isFirst |-> FALSE, isAdditional |-> FALSE,
     messageIndex |-> 0, totalMessages |-> 0]

welcomeMessage == PlainMessage(0, "assistant", "welcome", 0)

userMessage(t) == PlainMessage(t, "user", "user", 0)

\* q.slice(0, n)
Slice(q, n) == SubSeq(q, 1, Min(n, Len(q)))

\* demoResponses.slice(0, numMessages); a canned response is named by its
\* place in the pool.
selectedResponses(numMessages) ==
    Slice([j \in 1..Len(demoResponses) |-> j], numMessages)

\* A map callback that numbers the messages from 0.
DemoMultiMessageFromZero(t, index, numMessages) ==
    [turn |-> t, role |-> "assistant", src |-> "multi",
     k |-> selectedResponses(numMessages)[index + 1],
     isMultiMessage |-> TRUE, isFirst |-> (index = 0),
     isAdditional |-> (index > 0), messageIndex |-> index,
     totalMessages |-> numMessages]

\* The Message built by the demo branch of sendMessageMulti for `index`
\* (0-based, as in the map callback).
DemoMultiMessage(t, index, numMessages) ==
    [turn |-> t, role |-> "assistant", src |-> "multi",
     k |-> selectedResponses(numMessages)[index + 1],
     isMultiMessage |-> TRUE, isFirst |-> (index = 0),
     isAdditional |-> (index > 0), messageIndex |-> index + 1,
     totalMessages |-> numMessages]

NoResponse ==
    [success |-> FALSE, isMultiMessage |-> FALSE, totalMessages |-> 0,
     messages |-> <<>>]

\* chatApi.sendMessageMulti, demo branch.
sendMessageMultiDemo(t, numMessages) ==
    [success |-> TRUE, isMultiMessage |-> TRUE, totalMessages |-> numMessages,
     messages |-> [j \in 1..Len(selectedResponses(numMessages)) |->
                      DemoMultiMessage(t, j - 1, numMessages)]]

\* A Message of the real backend that carries the sequence fields of its
\* place j in a batch of `total`.
SequencedMessage(t, j, total) ==
    [turn |-> t, role |-> "assistant", src |-> "multi", k |-> j,
     isMultiMessage |-> (total > 1), isFirst |-> (j = 1),
     isAdditional |-> (j > 1), messageIndex |-> j, totalMessages |-> total]

\* A body of the real /messages/multi endpoint, returned unchanged by
\* handleResponse: n messages, with or without sequence fields.
RealMultiResponse(t, multi, n, total, meta) ==
    [success |-> TRUE, isMultiMessage |-> multi, totalMessages |-> total,
     messages |-> [j \in 1..n |->
                      IF meta THEN SequencedMessage(t, j, total)
                      ELSE PlainMessage(t, "assistant", "multi", j)]]

\* message.content is a string: a message of the multi endpoint with k = 0
\* stands for a message object that has no content field.
HasContent(m) == ~(m.src = "multi" /\ m.k = 0)

\* A flagged batch of two messages whose second message has no content.
ContentlessBatch(t) ==
    [RealMultiResponse(t, TRUE, 2, 2, TRUE) EXCEPT !.messages[2].k = 0]

\* The bodies the real endpoint answers with in the model: well-formed
\* flagged batches of 0..MaxFrag messages; a flagged batch whose messages carry
\* no sequence fields; a flagged batch whose totalMessages is one more than
\* its list holds; a flagged batch whose second message has no content; and
\* unflagged bodies of 0 or 1 message.
RealBodies(t) ==
    {RealMultiResponse(t, TRUE, n, n, TRUE) : n \in 0..MaxFrag}
    \cup {RealMultiResponse(t, TRUE, MaxFrag, MaxFrag, FALSE),
          RealMultiResponse(t, TRUE, MaxFrag, MaxFrag + 1, TRUE)}
    \cup {ContentlessBatch(t)}
    \cup {RealMultiResponse(t, FALSE, n, n, FALSE) : n \in {0, 1}}

\* A typing delay without the cap.
typingDelayUncapped(len) == len * MsPerChar

\* const typingDelay = Math.min(message.content.length * 50, 3000)
typingDelay(len) == Min(len * MsPerChar, MaxTypingDelay)

Ticks(ms) == ms \div TickMs

\* ------------------------------------------------------------------------
\* The draft of the input field
\* ------------------------------------------------------------------------
\* A draft is a sequence of characters; " " stands for white space.
Drafts == {<<>>, <<" ">>, <<"a">>, <<" ", "a", " ">>}

RECURSIVE TrimStart(_)
TrimStart(d) ==
    IF d # <<>> /\ Head(d) = " " THEN TrimStart(Tail(d)) ELSE d

RECURSIVE TrimEnd(_)
TrimEnd(d) ==
    IF d # <<>> /\ d[Len(d)] = " " THEN TrimEnd(SubSeq(d, 1, Len(d) - 1))
    ELSE d

\* A trim that strips nothing.
TrimNothing(d) == d

\* message.trim()
Trim(d) == TrimEnd(TrimStart(d))

\* ------------------------------------------------------------------------
\* Turn records
\* ------------------------------------------------------------------------
IdleTurn ==
    [pc |-> "idle", timer |-> 0, resp |-> NoResponse, i |-> 0, loop |-> FALSE,
     demo |-> FALSE, gwMulti |-> "none", gwSingle |-> "none"]

\* Positions at which a timer of the turn is pending.
Timed == {"typing", "pause", "demoTimer"}

\* A loop that pauses after every fragment, the last one included.
PauseAfterEvery(i, n) == i <= n

\* if (i < response.data.messages.length - 1), with i the 1-based index
PauseBetween(i, n) == i < n

\* A reveal that puts the fragment in front of the store.
PrependFragment(store, m) == <<m>> \o store

\* displayMessageWithTyping: setMessages(prev => [...prev, message])
AppendFragment(store, m) == Append(store, m)

\* A sendMessage that forgets the user's message.
AppendUserDropped(store, t) == store

\* setMessages(prev => [...prev, userMessage])
AppendUser(store, t) == Append(store, userMessage(t))

\* A timer callback that builds the demo answer but does not append it.
AppendDemoAnswerDropped(store, t) == store

\* The setTimeout callback of sendMessageFallback:
\* setMessages(prev => [...prev, aiMessage]) with the getPriyaResponse text.
AppendDemoAnswer(store, t) ==
    Append(store, PlainMessage(t, "assistant", "demo", 1))

\* ------------------------------------------------------------------------
\* chatApi.sendMessage: the JSON body and its normalisation
\* ------------------------------------------------------------------------
\* An optional value is a sequence of length 0 (absent, undefined) or 1.
None == <<>>
Some(v) == <<v>>

RECURSIVE SeqsUpTo(_, _)
\* The sequences over S of length 0..n.
SeqsUpTo(S, n) ==
    IF n = 0 THEN {<<>>}
    ELSE LET shorter == SeqsUpTo(S, n - 1)
         IN  shorter \cup {Append(q, x) : q \in {r \in shorter : Len(r) = n - 1},
                                          x \in S}

\* The entries of a nested data.messages list: a string, an object with or
\* without a content field, or null.
Entries ==
    {[kind |-> "string", content |-> Some("x")],
     [kind |-> "object", content |-> Some("y")],
     [kind |-> "object", content |-> None],
     [kind |-> "null", content |-> None]}

TopLists == SeqsUpTo({"a", "b"}, MaxLen)
NestedLists == SeqsUpTo(Entries, MaxLen)

DataObjects ==
    [content : {None, Some(""), Some("c")},
     messages : {None} \cup {Some(l) : l \in NestedLists}]

\* The parsed JSON object bodies of a 2xx answer of POST /chats/{id}/messages.
RawResponses ==
    [isMultiMessage : BOOLEAN, is_multi_message : BOOLEAN,
     messages : {None} \cup {Some(l) : l \in TopLists},
     data : {None} \cup {Some(d) : d \in DataObjects},
     content : {None, Some(""), Some("d")}]

\* The body {}.
EmptyBody ==
    [isMultiMessage |-> FALSE, is_multi_message |-> FALSE, messages |-> None,
     data |-> None, content |-> None]

\* JavaScript truthiness of an optional string.
Truthy(v) == v # None /\ v[1] # ""

\* a || b
JsOr(a, b) == IF Truthy(a) THEN a ELSE b

\* result.messages && Array.isArray(result.messages) && length > 1
HasTopList(r) == r.messages # None /\ Len(r.messages[1]) > 1

\* result.data && result.data.messages && Array.isArray(...) && length > 1
HasNestedList(r) ==
    /\ r.data # None
    /\ r.data[1].messages # None
    /\ Len(r.data[1].messages[1]) > 1

\* typeof msg === 'string' ? msg : msg.content
EntryContent(e) == e.content

\* `messages` after the three detection blocks: the nested block runs last and
\* overwrites what the top-level block stored.
ExtractedMessages(r) ==
    IF HasNestedList(r)
    THEN [j \in 1..Len(r.data[1].messages[1]) |->
             EntryContent(r.data[1].messages[1][j])]
    ELSE IF HasTopList(r)
         THEN [j \in 1..Len(r.messages[1]) |-> Some(r.messages[1][j])]
         ELSE <<>>

\* `totalMessages` after the three detection blocks.
ExtractedTotal(r) ==
    IF HasNestedList(r) THEN Len(r.data[1].messages[1])
    ELSE IF HasTopList(r) THEN Len(r.messages[1])
    ELSE 1

\* `isMultiMessage` after the three detection blocks.
DetectedMulti(r) ==
    \/ r.isMultiMessage \/ r.is_multi_message
    \/ HasTopList(r)
    \/ HasNestedList(r)

\* result.data?.content
DataContent(r) == IF r.data = None THEN None ELSE r.data[1].content

\* A primaryContent that prefers the top-level content to the nested one.
PrimaryContentTopFirst(r) ==
    LET msgs == ExtractedMessages(r)
    IN  JsOr(r.content,
             JsOr(DataContent(r),
                  IF Len(msgs) > 0 THEN msgs[1] ELSE Some("No content")))

\* result.data?.content || result.content ||
\*   (messages.length > 0 ? messages[0] : 'No content')
PrimaryContent(r) ==
    LET msgs == ExtractedMessages(r)
    IN  JsOr(DataContent(r),
             JsOr(r.content,
                  IF Len(msgs) > 0 THEN msgs[1] ELSE Some("No content")))

\* msg.content is read of null: the map callback raises a TypeError.
MapRaises(r) ==
    /\ HasNestedList(r)
    /\ \E j \in 1..Len(r.data[1].messages[1]) :
          r.data[1].messages[1][j].kind = "null"

Pending ==
    [kind |-> "pending", by |-> "none", messages |-> <<>>,
     totalMessages |-> 0, content |-> None]

\* The call ended with an exception instead of a result.
Raised(by) ==
    [kind |-> "raised", by |-> by, messages |-> <<>>, totalMessages |-> 0,
     content |-> None]

\* chatApi.sendMessage on a 2xx answer with body r: the multi-message object
\* (which has no content field of its own; primaryMessage is not modelled
\* further) or the primary message.
sendMessage(r) ==
    IF MapRaises(r) THEN Raised("current")
    ELSE IF DetectedMulti(r) /\ Len(ExtractedMessages(r)) > 1
         THEN [kind |-> "multi", by |-> "current",
               messages |-> ExtractedMessages(r),
               totalMessages |-> ExtractedTotal(r), content |-> None]
         ELSE [kind |-> "single", by |-> "current", messages |-> <<>>,
               totalMessages |-> 1, content |-> PrimaryContent(r)]

\* The earlier chatApi.sendMessage kept in BackendMessageTester.tsx, on a 2xx
\* answer with body r (the bodies of the model carry no id): result.data if
\* there is one, else the body itself if it has a content, else an Error.
sendMessageEarlier(r) ==
    IF r.data # None
    THEN [kind |-> "single", by |-> "earlier", messages |-> <<>>,
          totalMessages |-> 1, content |-> r.data[1].content]
    ELSE IF Truthy(r.content)
         THEN [kind |-> "single", by |-> "earlier", messages |-> <<>>,
               totalMessages |-> 1, content |-> r.content]
         ELSE Raised("earlier")

\* The fragments of the batch a result stands for.
Fragments(res) ==
    IF res.kind = "multi" THEN res.messages
    ELSE IF res.kind = "single" THEN <<res.content>>
    ELSE <<>>

\* ------------------------------------------------------------------------
\* One call of a chatApi transport
\* ------------------------------------------------------------------------
\* HTTP statuses the backend answers with; 0 stands for a fetch that rejects
\* (no answer at all).
Statuses == {0, 200, 401, 403, 500}

\* response.ok
Ok(status) == status \div 100 = 2

\* A line of the stream body: `kind` says what the line is, p is the payload
\* of a message record.
Line(kind, p) == [kind |-> kind, p |-> p]

Payloads == {1, 2}

\* What the server sends on the stream: the four event records, a record
\* with another type, a `data: ` line that is not JSON, and a line without
\* the `data: ` prefix (a blank separator, a comment, a JSON error body).
Records ==
    {Line(kd, 0) : kd \in {"connected", "complete", "error", "unknown",
                           "malformed", "other"}}
    \cup {Line("message", pl) : pl \in Payloads}

SentStreams == SeqsUpTo(Records, MaxLen)

\* The chunks reader.read() returns for `sent`: one record per chunk, all
\* records in one chunk, or (cut > 0) two chunks whose boundary falls inside
\* record `cut`, which leaves a head and a tail of that record's line.
ChunksOf(sent, cut, layout) ==
    IF cut > 0
    THEN <<Append(SubSeq(sent, 1, cut - 1), Line("head", sent[cut].p)),
           <<Line("tail", sent[cut].p)>> \o SubSeq(sent, cut + 1, Len(sent))>>
    ELSE IF layout = "one"
         THEN IF sent = <<>> THEN <<>> ELSE <<sent>>
         ELSE [j \in 1..Len(sent) |-> <<sent[j]>>]

\* line.startsWith('data: ')
StartsWithData(l) == l.kind \notin {"other", "tail"}

\* JSON.parse(line.slice(6)) returns
Parses(l) == l.kind \notin {"malformed", "head"}

\* A callback invocation, as the caller sees it.
Callback(cb, type, p) == [cb |-> cb, type |-> type, p |-> p]

\* A catch block that reports the unparsable line and ends the stream.
OnMalformedFatal(log) ==
    [log |-> Append(log, Callback("onError", "parse", 0)), returned |-> TRUE]

\* catch (parseError) { console.warn(...) }
OnMalformed(log) == [log |-> log, returned |-> FALSE]

\* A handler whose error branch does not return.
OnRecordNoReturn(l, log) ==
    IF l.kind = "connected"
    THEN [log |-> Append(log, Callback("onMessage", "connected", 0)),
          returned |-> FALSE]
    ELSE IF l.kind = "message"
    THEN [log |-> Append(log, Callback("onMessage", "message", l.p)),
          returned |-> FALSE]
    ELSE IF l.kind = "complete"
    THEN [log |-> Append(log, Callback("onComplete", "complete", 0)),
          returned |-> FALSE]
    ELSE IF l.kind = "error"
    THEN [log |-> Append(log, Callback("onError", "error", 0)),
          returned |-> FALSE]
    ELSE [log |-> log, returned |-> FALSE]

\* The if / else-if chain on data.type of a parsed record.
OnRecord(l, log) ==
    IF l.kind = "connected"
    THEN [log |-> Append(log, Callback("onMessage", "connected", 0)),
          returned |-> FALSE]
    ELSE IF l.kind = "message"
    THEN [log |-> Append(log, Callback("onMessage", "message", l.p)),
          returned |-> FALSE]
    ELSE IF l.kind = "complete"
    THEN [log |-> Append(log, Callback("onComplete", "complete", 0)),
          returned |-> FALSE]
    ELSE IF l.kind = "error"
    THEN [log |-> Append(log, Callback("onError", "error", 0)),
          returned |-> TRUE]
    ELSE [log |-> log, returned |-> FALSE]

\* The body of `for (const line of lines)` for one line.
OnLine(l, log) ==
    IF ~StartsWithData(l) THEN [log |-> log, returned |-> FALSE]
    ELSE IF ~Parses(l) THEN OnMalformed(log)
    ELSE OnRecord(l, log)

RECURSIVE ProcessLines(_, _)
\* for (const line of lines) { ... } on the lines of one chunk.
ProcessLines(lines, log) ==
    IF lines = <<>> THEN [log |-> log, returned |-> FALSE]
    ELSE LET r == OnLine(Head(lines), log)
         IN  IF r.returned THEN r ELSE ProcessLines(Tail(lines), r.log)

\* Lengths of the canned demoMessages of sendMessageStream.
demoMessages == <<34, 35, 49, 60>>

NoCall ==
    [transport |-> "none", demo |-> FALSE, status |-> 0, sent |-> <<>>,
     cut |-> 0, chunks |-> <<>>, abort |-> FALSE, seen |-> <<>>,
     log |-> <<>>, outcome |-> "pending", count |-> 0, i |-> 0]

\* A call of chatApi.sendMessage or chatApi.sendMessageMulti with a real
\* token, answered with `status`.
PlainCall(transport, status) ==
    [NoCall EXCEPT !.transport = transport, !.status = status]

\* A call of chatApi.sendMessageStream with a real token.
StreamCall(status, sent, cut, layout, abort) ==
    [NoCall EXCEPT !.transport = "stream", !.status = status, !.sent = sent,
                   !.cut = cut, !.chunks = ChunksOf(sent, cut, layout),
                   !.abort = abort]

\* A call of chatApi.sendMessageStream with a demo token.
DemoStreamCall(numMessages) ==
    [NoCall EXCEPT !.transport = "stream", !.demo = TRUE,
                   !.count = numMessages]

\* The bodies of a 401 or 403 answer: empty, or a JSON error object.
ErrorBodies == {<<>>, <<Line("other", 0)>>}

\* The calls of the model, each with its request in flight.
PendingCalls ==
    {PlainCall(tr, st) : tr \in {"single", "multi"}, st \in Statuses}
    \cup {StreamCall(200, sent, 0, layout, abort) :
             sent \in SentStreams, layout \in {"each", "one"},
             abort \in BOOLEAN}
    \cup UNION {{StreamCall(200, sent, cut, "cut", FALSE) :
                    cut \in {c \in 1..Len(sent) : sent[c].kind = "message"}} :
                 sent \in SentStreams}
    \cup {StreamCall(st, body, 0, "one", FALSE) :
             st \in Statuses \ {200}, body \in ErrorBodies}
    \cup {DemoStreamCall(numMessages) : numMessages \in DemoCounts}

\* ------------------------------------------------------------------------
\* Init
\* ------------------------------------------------------------------------
Init ==
    /\ messages = <<>>
    /\ isSending = FALSE
    /\ isDemoMode = FALSE
    /\ isLoading = FALSE
    /\ currentChat = "none"
    /\ token \in {"real", "demo"}
    /\ initPc = "start"
    /\ turns = [t \in Turns |-> IdleTurn]
    /\ raw = EmptyBody
    /\ result = Pending
    /\ message = <<>>
    /\ mounted \in {"WhatsAppChat", "ChatInterface"}
    /\ selectedExpert = ""
    /\ isTyping = FALSE
    /\ aiTimer = FALSE
    /\ call = NoCall

\* ------------------------------------------------------------------------
\* The input field
\* ------------------------------------------------------------------------
\* onChange={(e) => setMessage(e.target.value)}; the field is disabled while
\* the typing flag is up. Typing is followed while a turn is left to submit.
SetMessage ==
    /\ \/ /\ mounted = "WhatsAppChat"
          /\ ~isSending
          /\ \E t \in Turns : turns[t].pc = "idle"
       \/ /\ mounted = "ChatInterface"
          /\ ~isTyping
          /\ Len(messages) < 2 * MaxTurns
    /\ \E text \in Drafts \ {message} : message' = text
    /\ UNCHANGED <<messages, isSending, isDemoMode, isLoading, currentChat,
                   token, initPc, turns, raw, result, ciVars, call>>

\* ------------------------------------------------------------------------
\* initializeChat
\* ------------------------------------------------------------------------
\* The tail of initializeChat once the chat is known.
InitFinish(chat, demoFlag) ==
    /\ currentChat' = chat
    /\ isDemoMode' = demoFlag
    /\ messages' = <<welcomeMessage>>
    /\ isLoading' = FALSE
    /\ initPc' = "ready"

\* The effect's call of initializeChat; with a demo token createChat answers
\* without a request and the whole function runs in this step.
InitializeChat ==
    /\ mounted = "WhatsAppChat"
    /\ initPc = "start"
    /\ \/ /\ token = "demo"
          /\ InitFinish("demo", isDemoMode)
       \/ /\ token = "real"
          /\ initPc' = "creating"
          /\ isLoading' = TRUE
          /\ UNCHANGED <<currentChat, isDemoMode, messages>>
    /\ UNCHANGED <<isSending, token, turns, raw, result, message, ciVars, call>>

\* The POST /chats request of createChat resolves.
CreateChatResolve ==
    /\ initPc = "creating"
    /\ \/ InitFinish("real", isDemoMode)
       \/ InitFinish("demo", TRUE)
    /\ UNCHANGED <<isSending, token, turns, raw, result, message, ciVars, call>>

\* ------------------------------------------------------------------------
\* sendMessageWithMultiResponse: what follows the response
\* ------------------------------------------------------------------------
\* A finally block that leaves the typing flag as it is.
FinallySkipped(sending) == sending

\* finally { setIsSending(false) } of sendMessage
AfterFinally(sending) == FALSE

\* The turn record once sendMessage has run its finally block.
Finished(tr) == [tr EXCEPT !.pc = "done", !.timer = 0]

\* The turn record and the typing flag after `resp` has arrived: the first
\* call of displayMessageWithTyping up to its timer, or the return.
AfterResponse(tr, resp, len, sending) ==
    IF resp.success /\ resp.isMultiMessage
    THEN IF Len(resp.messages) > 0
         THEN <<[tr EXCEPT !.pc = "typing", !.resp = resp, !.i = 1,
                           !.loop = TRUE, !.timer = Ticks(typingDelay(len))],
                TRUE>>
         ELSE <<Finished([tr EXCEPT !.resp = resp]), AfterFinally(sending)>>
    ELSE IF Len(resp.messages) > 0
         THEN <<[tr EXCEPT !.pc = "typing", !.resp = resp, !.i = 1,
                           !.loop = FALSE, !.timer = Ticks(typingDelay(len))],
                sending>>
         ELSE <<Finished([tr EXCEPT !.resp = resp]), AfterFinally(sending)>>

\* ------------------------------------------------------------------------
\* sendMessage
\* ------------------------------------------------------------------------
\* The demo test of the chatApi transports, on the token only.
IsDemoSessionByToken(tok, chat) == tok = "demo"

\* token?.startsWith('demo-token-') || chatId?.startsWith('demo-chat-')
IsDemoSession(tok, chat) == tok = "demo" \/ chat = "demo"

\* sendMessage, called by the Enter key or the send button for the next turn
\* t: the early return, or the user message and everything up to the first
\* suspension of sendMessageWithMultiResponse.
SendMessage(t) ==
    /\ mounted = "WhatsAppChat"
    /\ turns[t].pc = "idle"
    /\ \A s \in Turns : s < t => turns[s].pc # "idle"
    /\ IF Trim(message) = <<>> \/ currentChat = "none" \/ isSending
       THEN UNCHANGED <<message, messages, turns, isSending>>
       ELSE /\ message' = <<>>
            /\ messages' = AppendUser(messages, t)
            /\ \/ /\ IsDemoSession(token, currentChat)
                  /\ \E numMessages \in DemoCounts :
                        LET r == AfterResponse(
                                    [turns[t] EXCEPT !.demo = isDemoMode,
                                                     !.gwMulti = "demo"],
                                    sendMessageMultiDemo(t, numMessages),
                                    demoResponses[1], TRUE)
                        IN  /\ turns' = [turns EXCEPT ![t] = r[1]]
                            /\ isSending' = r[2]
               \/ /\ ~IsDemoSession(token, currentChat)
                  /\ turns' = [turns EXCEPT ![t] = [@ EXCEPT !.pc = "multi",
                                                             !.demo = isDemoMode]]
                  /\ isSending' = TRUE
    /\ UNCHANGED <<isDemoMode, isLoading, currentChat, token, initPc, raw,
                   result, ciVars, call>>

\* sendMessageFallback entered from the catch of sendMessageWithMultiResponse.
EnterFallback(t, tr) ==
    IF ~tr.demo
    THEN \* the request of chatApi.sendMessage is in flight
         /\ turns' = [turns EXCEPT ![t] = [tr EXCEPT !.pc = "single"]]
         /\ UNCHANGED isSending
    ELSE \* setTimeout(...) is scheduled, sendMessage returns
         /\ \E d \in {1, 2} :
               turns' = [turns EXCEPT ![t] = [tr EXCEPT !.pc = "demoTimer",
                                                          !.timer = d]]
         /\ isSending' = AfterFinally(isSending)

\* The request of chatApi.sendMessageMulti settles: with a body that
\* sendMessageWithMultiResponse can read, or with an error that its catch turns
\* into sendMessageFallback (fetch rejected; handleResponse raised, on a
\* non-OK status or on a body that is not JSON).
MultiResolve(t) ==
    /\ turns[t].pc = "multi"
    /\ \/ \E body \in RealBodies(t), len \in ContentLens :
             LET r == AfterResponse(
                         [turns[t] EXCEPT !.gwMulti = "ok"], body, len,
                         isSending)
             IN  /\ turns' = [turns EXCEPT ![t] = r[1]]
                 /\ isSending' = r[2]
       \/ \E err \in {"network", "status"} :
             EnterFallback(t, [turns[t] EXCEPT !.gwMulti = err])
    /\ UNCHANGED <<messages, isDemoMode, isLoading, currentChat, token,
                   initPc, raw, result, message, ciVars, call>>

\* ------------------------------------------------------------------------
\* displayMessageWithTyping and the reveal loop
\* ------------------------------------------------------------------------
\* The typing timer of fragment i expires: the flag falls for the first
\* fragment, the fragment is appended, and the loop either starts the
\* inter-message delay or ends, in which case sendMessage's finally runs.
TypingFire(t) ==
    LET tr == turns[t]
        n == Len(tr.resp.messages)
        first == tr.loop /\ tr.i = 1
        additional == tr.loop /\ tr.i > 1
        lowered == IF first \/ ~additional THEN FALSE ELSE isSending
    IN  /\ tr.pc = "typing"
        /\ tr.timer = 0
        /\ messages' = AppendFragment(messages, tr.resp.messages[tr.i])
        /\ IF tr.loop /\ PauseBetween(tr.i, n)
           THEN /\ turns' = [turns EXCEPT ![t] =
                                [tr EXCEPT !.pc = "pause",
                                           !.timer = Ticks(InterMessageDelay)]]
                /\ isSending' = lowered
           ELSE /\ turns' = [turns EXCEPT ![t] = Finished(tr)]
                /\ isSending' = AfterFinally(isSending)
        /\ UNCHANGED <<isDemoMode, isLoading, currentChat, token,
                       initPc, raw, result, message, ciVars, call>>

\* The inter-message delay expires: i++, the loop condition, and the next
\* call of displayMessageWithTyping up to its timer. A message without a
\* content raises at message.content.length, which the catch of
\* sendMessageWithMultiResponse turns into sendMessageFallback.
PauseFire(t) ==
    LET tr == turns[t]
        n == Len(tr.resp.messages)
    IN  /\ tr.pc = "pause"
        /\ tr.timer = 0
        /\ IF tr.i + 1 <= n
           THEN IF HasContent(tr.resp.messages[tr.i + 1])
                THEN /\ \E len \in ContentLens :
                           turns' = [turns EXCEPT ![t] =
                                  [tr EXCEPT !.pc = "typing", !.i = tr.i + 1,
                                     !.timer = Ticks(typingDelay(
                                        IF tr.gwMulti = "demo"
                                        THEN demoResponses[tr.i + 1]
                                        ELSE len))]]
                     /\ UNCHANGED isSending
                ELSE EnterFallback(t, tr)
           ELSE /\ turns' = [turns EXCEPT ![t] = Finished(tr)]
                /\ isSending' = AfterFinally(isSending)
        /\ UNCHANGED <<messages, isDemoMode, isLoading, currentChat, token,
                       initPc, raw, result, message, ciVars, call>>

\* ------------------------------------------------------------------------
\* sendMessageFallback
\* ------------------------------------------------------------------------
\* The bodies the /messages endpoint answers with in the model.
SampleBodies ==
    {EmptyBody,
     [EmptyBody EXCEPT !.content = Some("d")],
     [EmptyBody EXCEPT !.isMultiMessage = TRUE,
                       !.messages = Some(<<"a", "b">>)]}

\* The request of chatApi.sendMessage settles: with a result that has a
\* content the reply is appended; otherwise (no content field, or the call
\* raised, which sets the demo flag) the demo answer is scheduled. Then
\* sendMessage's finally runs.
SingleResolve(t) ==
    LET tr == turns[t]
    IN  /\ tr.pc = "single"
        /\ \/ \E body \in SampleBodies :
                 LET response == sendMessage(body)
                 IN  IF response.kind # "raised" /\ Truthy(response.content)
                     THEN /\ messages' = Append(messages,
                                 PlainMessage(t, "assistant", "single", 1))
                          /\ turns' = [turns EXCEPT ![t] =
                                 Finished([tr EXCEPT !.gwSingle = "ok"])]
                          /\ UNCHANGED isDemoMode
                     ELSE /\ \E d \in {1, 2} :
                                turns' = [turns EXCEPT ![t] =
                                   [tr EXCEPT !.pc = "demoTimer", !.timer = d,
                                      !.gwSingle =
                                         IF response.kind = "raised"
                                         THEN "raised" ELSE "okMulti"]]
                          /\ isDemoMode' = (isDemoMode \/ response.kind = "raised")
                          /\ UNCHANGED messages
           \/ \E err \in {"network", "status"}, d \in {1, 2} :
                 /\ turns' = [turns EXCEPT ![t] =
                                [tr EXCEPT !.pc = "demoTimer", !.timer = d,
                                           !.gwSingle = err]]
                 /\ isDemoMode' = TRUE
                 /\ UNCHANGED messages
        /\ isSending' = AfterFinally(isSending)
        /\ UNCHANGED <<isLoading, currentChat, token, initPc, raw, result,
                       message, ciVars, call>>

\* The setTimeout callback of sendMessageFallback.
DemoTimerFire(t) ==
    LET tr == turns[t]
    IN  /\ tr.pc = "demoTimer"
        /\ tr.timer = 0
        /\ messages' = AppendDemoAnswer(messages, t)
        /\ turns' = [turns EXCEPT ![t] = Finished(tr)]
        /\ UNCHANGED <<isSending, isDemoMode, isLoading, currentChat, token,
                       initPc, raw, result, message, ciVars, call>>

\* ------------------------------------------------------------------------
\* The demoMessage listener
\* ------------------------------------------------------------------------
\* handleDemoMessage: a demoMessage event reaches the window and its detail is
\* appended. The event is dispatched by the timer of the demo branch of
\* chatApi.sendMessage, which a caller outside WhatsAppChat reaches with a
\* demo token; one event is followed.
HandleDemoMessage ==
    /\ mounted = "WhatsAppChat"
    /\ initPc = "ready"
    /\ token = "demo"
    /\ \A p \in 1..Len(messages) : messages[p].src # "event"
    /\ messages' = Append(messages, PlainMessage(0, "assistant", "event", 1))
    /\ UNCHANGED <<isSending, isDemoMode, isLoading, currentChat, token,
                   initPc, turns, raw, result, message, ciVars, call>>

\* ------------------------------------------------------------------------
\* Time
\* ------------------------------------------------------------------------
\* One tick passes: possible only when no pending timer has expired.
Tick ==
    /\ \E t \in Turns : turns[t].pc \in Timed
    /\ \A t \in Turns : turns[t].pc \in Timed => turns[t].timer > 0
    /\ turns' = [t \in Turns |->
                    IF turns[t].pc \in Timed
                    THEN [turns[t] EXCEPT !.timer = @ - 1]
                    ELSE turns[t]]
    /\ UNCHANGED <<messages, isSending, isDemoMode, isLoading, currentChat,
                   token, initPc, raw, result, message, ciVars, call>>

\* ------------------------------------------------------------------------
\* ChatInterface
\* ------------------------------------------------------------------------
\* useEffect(() => setSelectedExpert(savedExpert), [])
SelectExpert ==
    /\ mounted = "ChatInterface"
    /\ selectedExpert = ""
    /\ selectedExpert' = "therapist"
    /\ UNCHANGED <<messages, isSending, isDemoMode, isLoading, currentChat,
                   token, initPc, turns, raw, result, message, mounted,
                   isTyping, aiTimer, call>>

\* handleSendMessage, called by the Enter key or the send button (both off
\* while the typing flag is up): the early return, or the user message, the
\* typing flag and the timer of the simulated reply.
HandleSendMessage ==
    /\ mounted = "ChatInterface"
    /\ ~isTyping
    /\ Len(messages) < 2 * MaxTurns
    /\ IF Trim(message) = <<>> \/ selectedExpert = ""
       THEN UNCHANGED <<message, messages, isTyping, aiTimer>>
       ELSE /\ message' = <<>>
            /\ messages' = AppendUser(messages, Len(messages) \div 2 + 1)
            /\ isTyping' = TRUE
            /\ aiTimer' = TRUE
    /\ UNCHANGED <<isSending, isDemoMode, isLoading, currentChat, token,
                   initPc, turns, raw, result, mounted, selectedExpert, call>>

\* The setTimeout callback of handleSendMessage.
SimulatedReply ==
    /\ mounted = "ChatInterface"
    /\ aiTimer
    /\ aiTimer' = FALSE
    /\ isTyping' = FALSE
    /\ messages' = Append(messages,
           PlainMessage(Len(messages) \div 2 + 1, "assistant", "simulated", 1))
    /\ UNCHANGED <<isSending, isDemoMode, isLoading, currentChat, token,
                   initPc, turns, raw, result, message, mounted,
                   selectedExpert, call>>

Next ==
    \/ SetMessage
    \/ SelectExpert
    \/ HandleSendMessage
    \/ SimulatedReply
    \/ InitializeChat
    \/ CreateChatResolve
    \/ \E t \in Turns : SendMessage(t)
    \/ \E t \in Turns : MultiResolve(t)
    \/ \E t \in Turns : TypingFire(t)
    \/ \E t \in Turns : PauseFire(t)
    \/ \E t \in Turns : SingleResolve(t)
    \/ \E t \in Turns : DemoTimerFire(t)
    \/ HandleDemoMessage
    \/ Tick

Spec == Init /\ [][Next]_vars

\* ------------------------------------------------------------------------
\* Fairness: the event loop keeps serving timers
\* ------------------------------------------------------------------------
\* A step of the timers: time passes, or the callback of an expired timer
\* runs.
TimerStep ==
    \/ Tick
    \/ SimulatedReply
    \/ \E t \in Turns : TypingFire(t) \/ PauseFire(t) \/ DemoTimerFire(t)

FairSpec == Spec /\ WF_vars(TimerStep)

\* The gateway answers: every request in flight settles, with a body or with
\* an error.
ReturningSpec ==
    FairSpec /\ \A t \in Turns : WF_vars(MultiResolve(t) \/ SingleResolve(t))

\* ------------------------------------------------------------------------
\* Properties of the turn life cycle and the reveal loop
\* ------------------------------------------------------------------------
Positions == 1..Len(messages)

\* messages[p] is a fragment that the reveal loop appended for turn t.
IsFragmentOf(p, t) == messages[p].turn = t /\ messages[p].src = "multi"

\* The replies of turn t that came through the reveal loop, in store order.
RevealedOf(t) ==
    SelectSeq(messages, LAMBDA m : m.turn = t /\ m.src = "multi")

\* The response of turn t was handed to the for loop of
\* sendMessageWithMultiResponse.
HandedToLoop(t) ==
    /\ turns[t].pc \in {"typing", "pause", "done"}
    /\ turns[t].resp.success
    /\ turns[t].resp.isMultiMessage

\* C1: turn isolation. For two turns a and b with b submitted after a, every
\* fragment the reveal loop appended for a precedes every fragment it
\* appended for b, so no fragment of b lies between two fragments of a.
C1_TurnIsolation ==
    \A a, b \in Turns :
        a < b =>
            \A p, q \in Positions :
                (IsFragmentOf(p, a) /\ IsFragmentOf(q, b)) => p < q

\* A fragment of a later turn stands between two fragments of an earlier turn.
C1_Interleaved ==
    \E a, b \in Turns : \E p, q, r \in Positions :
        /\ a < b /\ p < q /\ q < r
        /\ IsFragmentOf(p, a) /\ IsFragmentOf(q, b) /\ IsFragmentOf(r, a)

\* C2: once the reveal loop is through a batch with totalMessages = N, the
\* store holds exactly N replies of that batch, their messageIndex values are
\* 1..N in append order, and each carries totalMessages = N.
C2_BatchIndexed ==
    \A t \in Turns :
        (HandedToLoop(t) /\ turns[t].pc = "done") =>
            LET N == turns[t].resp.totalMessages
                got == RevealedOf(t)
            IN  /\ Len(got) = N
                /\ \A j \in 1..Len(got) :
                      got[j].messageIndex = j /\ got[j].totalMessages = N

\* The reveal loop is through a batch of the real endpoint whose messages
\* carry no sequence fields.
C2_BareBatchRevealed ==
    \E t \in Turns :
        /\ HandedToLoop(t) /\ turns[t].pc = "done"
        /\ turns[t].gwMulti = "ok"
        /\ Len(RevealedOf(t)) >= 2
        /\ RevealedOf(t)[1].messageIndex = 0

\* C3: in a batch the reveal loop is through, exactly one appended message
\* has isFirst (the one with messageIndex 1), every other one has
\* isAdditional, isAdditional = (messageIndex > 1) and
\* isMultiMessage = (totalMessages > 1).
C3_FirstAndAdditional ==
    \A t \in Turns :
        (HandedToLoop(t) /\ turns[t].pc = "done"
            /\ Len(turns[t].resp.messages) > 0) =>
            LET got == RevealedOf(t)
            IN  /\ Cardinality({j \in 1..Len(got) : got[j].isFirst}) = 1
                /\ \A j \in 1..Len(got) :
                      /\ got[j].isFirst <=> got[j].messageIndex = 1
                      /\ ~got[j].isFirst => got[j].isAdditional
                      /\ got[j].isAdditional <=> got[j].messageIndex > 1
                      /\ got[j].isMultiMessage <=> got[j].totalMessages > 1

\* The reveal loop is through a batch none of whose messages has isFirst.
C3_NoFirstRevealed ==
    \E t \in Turns :
        /\ HandedToLoop(t) /\ turns[t].pc = "done"
        /\ Len(RevealedOf(t)) >= 2
        /\ \A j \in 1..Len(RevealedOf(t)) : ~RevealedOf(t)[j].isFirst

\* Turn t is in the delay that precedes the first fragment of its batch.
BeforeFirst(t) ==
    turns[t].pc = "typing" /\ turns[t].loop /\ turns[t].i = 1

\* The first fragment of turn t's batch is appended and others remain.
AfterFirst(t) ==
    /\ turns[t].loop
    /\ \/ turns[t].pc = "pause"
       \/ turns[t].pc = "typing" /\ turns[t].i > 1

\* C4: in every reveal cycle the typing flag is up from the invocation of the
\* reveal until the first fragment is appended, is down once that fragment is
\* appended, and stays down while the other fragments are appended.
C4_TypingFlag ==
    \A t \in Turns :
        /\ BeforeFirst(t) => isSending
        /\ AfterFirst(t) => ~isSending

\* A turn waits for its first fragment while the typing flag is down.
C4_FlagDownBeforeFirst ==
    \E t \in Turns : BeforeFirst(t) /\ ~isSending

\* Turn t appends the last fragment of its batch in this step.
AppendsLast(t) ==
    /\ turns[t].pc = "typing"
    /\ turns[t].i = Len(turns[t].resp.messages)
    /\ Len(messages') = Len(messages) + 1
    /\ messages'[Len(messages')].turn = t

\* C5: the step that appends the last fragment of a batch also ends the
\* reveal and runs sendMessage's completion: no timer of that turn is left
\* pending and the typing flag is down, for every batch length.
C5_NoDelayAfterLast ==
    [][\A t \in Turns :
          AppendsLast(t) =>
              /\ turns'[t].pc = "done"
              /\ turns'[t].pc \notin Timed
              /\ ~isSending']_vars

\* A batch of at least two fragments has been revealed to its end.
C5_BatchCompleted ==
    \E t \in Turns :
        /\ turns[t].pc = "done" /\ turns[t].loop
        /\ Len(turns[t].resp.messages) >= 2
        /\ Len(RevealedOf(t)) = Len(turns[t].resp.messages)

\* Every gateway call turn t made failed with a network error.
NetworkFailed(t) ==
    /\ turns[t].pc \in {"demoTimer", "done"}
    /\ turns[t].gwMulti = "network"
    /\ turns[t].gwSingle \in {"network", "none"}

HasUserMessage(t) == \E p \in Positions : messages[p] = userMessage(t)

\* The demo answers sendMessageFallback appended for turn t.
DemoAnswersOf(t) ==
    SelectSeq(messages, LAMBDA m : m.turn = t /\ m.src = "demo")

\* The store holds a demo answer of 1..4 messages for turn t, after the
\* user's message of that turn.
DemoAnswered(t) ==
    /\ Len(DemoAnswersOf(t)) \in 1..4
    /\ \E p, q \in Positions :
          /\ p < q
          /\ messages[p] = userMessage(t)
          /\ messages[q].turn = t /\ messages[q].src = "demo"

\* C9: when the gateway calls of a turn failed with a network error, the
\* user's message is in the store, and a demo answer of 1..4 messages for
\* that turn is appended later.
C9_DemoFallback ==
    /\ [](\A t \in Turns : NetworkFailed(t) => HasUserMessage(t))
    /\ \A t \in Turns : NetworkFailed(t) ~> DemoAnswered(t)

\* Both gateway calls of a turn failed with a network error and its demo
\* answer is in the store.
C9_FallbackAnswered ==
    \E t \in Turns :
        /\ NetworkFailed(t) /\ turns[t].gwSingle = "network"
        /\ DemoAnswered(t)

\* C10: from the moment sendMessage has accepted a turn, so before and while
\* the gateway is called and whatever its outcome, the user's message of that
\* turn is in the Message Store.
C10_UserMessageKept ==
    \A t \in Turns : turns[t].pc # "idle" => HasUserMessage(t)

\* A turn whose gateway calls both failed has ended with the user's message
\* still in the store, and another turn's request is still unanswered.
C10_KeptAcrossOutcomes ==
    \E t, u \in Turns :
        /\ turns[t].pc = "done" /\ turns[t].gwSingle \in {"network", "status"}
        /\ turns[u].pc = "multi"
        /\ HasUserMessage(t) /\ HasUserMessage(u)

\* ------------------------------------------------------------------------
\* Properties of the input field and of the demo flag
\* ------------------------------------------------------------------------
\* The draft is empty or holds white space only.
IsBlank(d) == \A j \in 1..Len(d) : d[j] = " "

\* C11: a call of sendMessage (WhatsAppChat) or handleSendMessage
\* (ChatInterface) with an empty or white-space-only draft changes nothing:
\* no turn starts a gateway call, and the Message Store, the typing flags and
\* the demo flag stay as they are.
C11_BlankIgnored ==
    [][(/\ IsBlank(message)
        /\ \/ \E t \in Turns : SendMessage(t)
           \/ HandleSendMessage)
          => UNCHANGED <<messages, isSending, isTyping, isDemoMode, turns,
                         aiTimer, call>>]_vars

\* A white-space-only draft stands in the enabled input of a chat that has
\* answered a turn and can take another one.
C11_BlankDraftSubmittable ==
    /\ mounted = "WhatsAppChat"
    /\ message = <<" ">>
    /\ currentChat # "none" /\ ~isSending
    /\ turns[1].pc = "done" /\ turns[2].pc = "idle"

\* createChat failed in initializeChat: a real token, yet a demo chat.
CreationFailed ==
    initPc = "ready" /\ token = "real" /\ currentChat = "demo"

\* Turn t has a request to the real backend in flight, or has had one.
CalledBackend(t) ==
    \/ turns[t].pc \in {"multi", "single"}
    \/ turns[t].gwMulti \notin {"none", "demo"}
    \/ turns[t].gwSingle # "none"

\* C12: once chat creation has failed in initializeChat, the session has a
\* locally synthesized chat, its demo flag is up, and no turn ever issues a
\* request to the real backend.
C12_StickyDemo ==
    CreationFailed =>
        /\ isDemoMode
        /\ \A t \in Turns : ~CalledBackend(t)

\* After a failed chat creation a turn was answered by the demo branch of
\* sendMessageMulti and revealed to its end.
C12_DemoTurnAfterFailure ==
    /\ CreationFailed
    /\ \E t \in Turns :
          /\ turns[t].pc = "done" /\ turns[t].gwMulti = "demo"
          /\ Len(RevealedOf(t)) >= 2

\* C13: the demo flag changes only in a step of initializeChat; no step of a
\* turn, a failed gateway call included, changes it.
C13_FlagOnlyByInit ==
    [][isDemoMode' # isDemoMode => (InitializeChat \/ CreateChatResolve)]_vars

\* The chat was created by the backend, and the demo flag is up because the
\* chatApi.sendMessage call of a turn failed.
C13_FlagRaisedByTurn ==
    /\ currentChat = "real" /\ isDemoMode
    /\ \E t \in Turns :
          turns[t].gwSingle \in {"network", "status", "raised"}

\* C14: the demo branch of sendMessageMulti never fails and returns a
\* well-formed batch: success, 2 to 4 fragments that are the first entries of
\* the canned pool in pool order, messageIndex rising from 1 by one, and
\* totalMessages equal to the number of fragments.
C14_DemoBatchWellFormed ==
    \A t \in Turns :
        turns[t].gwMulti = "demo" =>
            LET r == turns[t].resp
                n == Len(r.messages)
            IN  /\ turns[t].pc \in {"typing", "pause", "done"}
                /\ turns[t].gwSingle = "none"
                /\ r.success /\ r.isMultiMessage
                /\ n \in 2..4 /\ n <= Len(demoResponses)
                /\ r.totalMessages = n
                /\ \A j \in 1..n :
                      /\ r.messages[j].k = j
                      /\ r.messages[j].messageIndex = j
                      /\ r.messages[j].totalMessages = n

\* The demo branch has answered one turn with 2 and another with 4 fragments.
C14_DemoBatchesOfBothSizes ==
    \E t, u \in Turns :
        /\ turns[t].gwMulti = "demo" /\ Len(turns[t].resp.messages) = 2
        /\ turns[u].gwMulti = "demo" /\ Len(turns[u].resp.messages) = 4

\* ------------------------------------------------------------------------
\* Properties of pacing, completion and the store
\* ------------------------------------------------------------------------
\* This step appends a fragment of turn t that is not the last of its batch
\* and starts the inter-message delay.
PauseStarts(t) == turns[t].pc = "typing" /\ turns'[t].pc = "pause"

\* In this step the inter-message delay of turn t expires and the loop goes
\* on to the next fragment.
PauseEnds(t) == turns[t].pc = "pause" /\ turns'[t].pc = "typing"

\* C21 as stated: the wait between appending fragment i and appending
\* fragment i+1 is the inter-message delay and nothing else: the delay
\* started at the append is 1500 ms, and when it has expired the next
\* fragment is due at once, whatever its length.
C21_FixedWait ==
    [][\A t \in Turns :
          /\ PauseStarts(t) => turns'[t].timer = Ticks(InterMessageDelay)
          /\ PauseEnds(t) => turns'[t].timer = 0]_vars

\* C21 as amended: the delay started at the append of fragment i is 1500 ms
\* for every length, and when it has expired the typing delay of fragment
\* i+1 follows, which is 50 ms per character and at most 3000 ms.
C21_PauseThenTyping ==
    [][\A t \in Turns :
          /\ PauseStarts(t) => turns'[t].timer = Ticks(InterMessageDelay)
          /\ PauseEnds(t) =>
                /\ turns'[t].timer <= Ticks(MaxTypingDelay)
                /\ turns[t].gwMulti = "demo" =>
                      turns'[t].timer =
                         Ticks(typingDelay(demoResponses[turns'[t].i]))
                /\ turns[t].gwMulti # "demo" =>
                      turns'[t].timer \in
                         {Ticks(typingDelay(len)) : len \in ContentLens}]_vars

\* After the inter-message delay a later fragment of a batch is still held
\* back by a typing delay of the full 3000 ms.
C21_TypingAfterPause ==
    \E t \in Turns :
        /\ turns[t].pc = "typing" /\ turns[t].i >= 2
        /\ turns[t].timer = Ticks(MaxTypingDelay)
        /\ Len(RevealedOf(t)) = turns[t].i - 1

\* The reveal of turn t's response has started: displayMessageWithTyping was
\* called for its first message.
RevealStarted(t) == turns[t].i >= 1

\* Every message of turn t's response has a content.
WellFormedBatch(t) ==
    \A j \in 1..Len(turns[t].resp.messages) :
        HasContent(turns[t].resp.messages[j])

\* C22: an in-flight reveal is never aborted. When the turn of a batch whose
\* reveal has started is over, every one of the N messages of the batch is in
\* the store, also when other turns were submitted in between.
C22_RevealCompleted ==
    \A t \in Turns :
        (RevealStarted(t) /\ turns[t].pc = "done") =>
            Len(RevealedOf(t)) = Len(turns[t].resp.messages)

\* A turn is over whose batch of two was given up after its first fragment:
\* the second message has no content, and the answer of the fallback stands
\* in its place.
C22_RevealGivenUp ==
    \E t \in Turns :
        /\ RevealStarted(t) /\ turns[t].pc = "done"
        /\ ~WellFormedBatch(t)
        /\ Len(RevealedOf(t)) = 1
        /\ Len(turns[t].resp.messages) = 2
        /\ \E p \in Positions :
              messages[p].turn = t /\ messages[p].src \in {"single", "demo"}

\* Under FairSpec a started reveal of a batch whose messages all have a
\* content is completed, whatever other turns do meanwhile.
WellFormedRevealCompletes ==
    \A t \in Turns :
        (RevealStarted(t) /\ WellFormedBatch(t)) ~>
            (turns[t].pc = "done"
                /\ Len(RevealedOf(t)) = Len(turns[t].resp.messages))

\* The call of sendMessage for turn t has returned, finally block included;
\* at most the timer of the demo answer is still pending.
Returned(t) == turns[t].pc \in {"demoTimer", "done"}

\* The call of sendMessage for turn t returns in this step.
Returns(t) == ~Returned(t) /\ turns'[t].pc \in {"demoTimer", "done"}

\* C23: every gateway error is absorbed. Whatever the gateway calls of an
\* accepted turn come back with (a body, a network failure, a non-OK status,
\* a malformed body), the call of sendMessage returns; when it returns the
\* typing flag is down and the chat is set, so that sendMessage accepts the
\* next non-blank draft.
C23_ErrorsAbsorbed ==
    /\ \A t \in Turns : (turns[t].pc # "idle") ~> Returned(t)
    /\ [][\A t \in Turns :
             Returns(t) => (~isSending' /\ currentChat' # "none")]_vars

\* A turn whose first call failed on the network and whose second call came
\* back with a non-OK status is over, a further turn was accepted after it,
\* of which the body was malformed (a message without content), and the flag
\* is down.
C23_AcceptedAfterErrors ==
    \E a, b \in Turns :
        /\ a < b
        /\ turns[a].pc = "done"
        /\ turns[a].gwMulti = "network" /\ turns[a].gwSingle = "status"
        /\ turns[b].pc = "done" /\ ~WellFormedBatch(b)
        /\ ~isSending

\* C24: once initializeChat has installed the welcome message the store is
\* append-only: every step of WhatsAppChat leaves it as it is or adds one
\* message at its end, so every entry keeps its position and content, and the
\* welcome message stays first.
C24_AppendOnly ==
    [][(mounted = "WhatsAppChat" /\ initPc = "ready") =>
          /\ messages'[1] = welcomeMessage
          /\ \/ messages' = messages
             \/ /\ Len(messages') = Len(messages) + 1
                /\ SubSeq(messages', 1, Len(messages)) = messages]_vars

\* The store has grown by a user message, both fragments of a batch and the
\* detail of a demoMessage event, behind the welcome message.
C24_GrownStore ==
    /\ initPc = "ready"
    /\ messages[1] = welcomeMessage
    /\ \E p, q, r, e \in Positions :
          /\ 1 < p /\ p < q /\ q < r
          /\ messages[p].role = "user"
          /\ messages[q].src = "multi" /\ messages[r].src = "multi"
          /\ messages[q].turn = messages[r].turn
          /\ messages[e].src = "event"

\* The replies appended for turn t from the result of the single-message
\* call.
SingleRepliesOf(t) ==
    SelectSeq(messages, LAMBDA m : m.turn = t /\ m.src = "single")

\* C25: when a gateway call of a turn has succeeded, the reply in the store
\* is the gateway's own: a well-formed batch of the multi call is revealed
\* with all its messages, and after a single-message call that succeeded,
\* with a plain reply or with a batch, the store holds that call's reply for
\* the turn and no demo answer.
C25_GatewayReplyRevealed ==
    \A t \in Turns :
        turns[t].pc = "done" =>
            /\ (turns[t].gwMulti = "ok" /\ WellFormedBatch(t)) =>
                  /\ Len(RevealedOf(t)) = Len(turns[t].resp.messages)
                  /\ DemoAnswersOf(t) = <<>>
            /\ turns[t].gwSingle \in {"ok", "okMulti"} =>
                  /\ SingleRepliesOf(t) # <<>>
                  /\ DemoAnswersOf(t) = <<>>

\* The single-message call of a turn came back with a batch, and what the
\* store holds for the turn is a demo answer and nothing of the batch.
C25_DemoAnswerAfterBatch ==
    \E t \in Turns :
        /\ turns[t].pc = "done"
        /\ turns[t].gwSingle = "okMulti"
        /\ SingleRepliesOf(t) = <<>>
        /\ Len(DemoAnswersOf(t)) = 1

\* The assistant messages the store holds for turn t.
AnswersOf(t) ==
    SelectSeq(messages, LAMBDA m : m.turn = t /\ m.role = "assistant")

\* C27: every accepted turn is answered. When the turn is over (its gateway
\* calls have returned, every timer of the turn has fired) the store holds at
\* least one assistant message of that turn.
C27_TurnAnswered ==
    \A t \in Turns : turns[t].pc = "done" => AnswersOf(t) # <<>>

\* A turn is over whose multi call succeeded with an empty list of messages:
\* the user's message is in the store, no answer to it is, and no fallback
\* was tried.
C27_TurnUnanswered ==
    \E t \in Turns :
        /\ turns[t].pc = "done"
        /\ turns[t].gwMulti = "ok" /\ turns[t].gwSingle = "none"
        /\ turns[t].resp.messages = <<>>
        /\ HasUserMessage(t)
        /\ AnswersOf(t) = <<>>

\* The replies of the next turn would be made up locally, with no request to
\* the backend: sendMessageMulti, the first call of every turn, takes its demo
\* branch.
NextTurnFabricated == IsDemoSession(token, currentChat)

\* C30: the demo-mode flag matches what happens. In every state of
\* WhatsAppChat after initialisation, isDemoMode is true exactly when the
\* replies of the next turn are fabricated locally without a request.
C30_FlagMatchesMode ==
    (mounted = "WhatsAppChat" /\ initPc = "ready") =>
        (isDemoMode <=> NextTurnFabricated)

\* In a session started with a demo token a turn was answered by the demo
\* branch, without a request, while the flag was and is down.
C30_DemoSessionUnflagged ==
    /\ mounted = "WhatsAppChat" /\ initPc = "ready"
    /\ token = "demo" /\ ~isDemoMode
    /\ \E t \in Turns :
          /\ turns[t].pc = "done" /\ turns[t].gwMulti = "demo"
          /\ ~turns[t].demo
          /\ Len(RevealedOf(t)) >= DemoMinCount

\* The flag is up after a send-path failure, and a later turn sent its
\* request to the backend all the same and revealed the backend's batch.
FlaggedTurnCalledBackend ==
    /\ isDemoMode /\ ~NextTurnFabricated
    /\ \E t \in Turns :
          /\ turns[t].demo /\ turns[t].gwMulti = "ok"
          /\ turns[t].pc = "done" /\ Len(RevealedOf(t)) >= 1

\* ------------------------------------------------------------------------
\* chatApi.sendMessage applied to every body of RawResponses
\* ------------------------------------------------------------------------
NormInit ==
    /\ messages = <<>>
    /\ isSending = FALSE
    /\ isDemoMode = FALSE
    /\ isLoading = FALSE
    /\ currentChat = "real"
    /\ token = "real"
    /\ initPc = "ready"
    /\ turns = [t \in Turns |-> IdleTurn]
    /\ raw \in RawResponses
    /\ result = Pending
    /\ message = <<>>
    /\ mounted = "WhatsAppChat"
    /\ selectedExpert = ""
    /\ isTyping = FALSE
    /\ aiTimer = FALSE
    /\ call = NoCall

NormFrame ==
    UNCHANGED <<messages, isSending, isDemoMode, isLoading, currentChat,
                token, initPc, turns, raw, message, ciVars, call>>

Normalise ==
    /\ result = Pending
    /\ result' = sendMessage(raw)
    /\ NormFrame

NormaliseEarlier ==
    /\ result = Pending
    /\ result' = sendMessageEarlier(raw)
    /\ NormFrame

NormNext == Normalise \/ NormaliseEarlier

NormSpec == NormInit /\ [][NormNext]_vars

\* ------------------------------------------------------------------------
\* The chatApi transports, one call at a time
\* ------------------------------------------------------------------------
GatewayInit ==
    /\ messages = <<>>
    /\ isSending = FALSE
    /\ isDemoMode = FALSE
    /\ isLoading = FALSE
    /\ currentChat = "real"
    /\ call \in PendingCalls
    /\ token = IF call.demo THEN "demo" ELSE "real"
    /\ initPc = "ready"
    /\ turns = [t \in Turns |-> IdleTurn]
    /\ raw = EmptyBody
    /\ result = Pending
    /\ message = <<>>
    /\ mounted = "WhatsAppChat"
    /\ selectedExpert = ""
    /\ isTyping = FALSE
    /\ aiTimer = FALSE

GatewayFrame ==
    UNCHANGED <<messages, isSending, isDemoMode, isLoading, currentChat,
                token, initPc, turns, raw, result, message, ciVars>>

\* handleResponse, and the status test of sendMessage: a rejected fetch or a
\* status outside 2xx raises, anything else is returned.
handleResponse(status) ==
    IF status = 0 \/ ~Ok(status) THEN "raised" ELSE "returned"

\* The request of sendMessage or sendMessageMulti settles.
PlainSettle ==
    /\ call.transport \in {"single", "multi"}
    /\ call.outcome = "pending"
    /\ call' = [call EXCEPT !.outcome = handleResponse(call.status)]
    /\ GatewayFrame

\* The fetch of sendMessageStream settles: a rejection goes to the outer
\* catch; any response (its status is not looked at) gets a reader.
StreamOpen ==
    /\ call.transport = "stream" /\ ~IsDemoSession(token, currentChat)
    /\ call.outcome = "pending"
    /\ call' = IF call.status = 0
               THEN [call EXCEPT
                        !.log = Append(@, Callback("onError", "network", 0)),
                        !.outcome = "returned"]
               ELSE [call EXCEPT !.outcome = "reading"]
    /\ GatewayFrame

\* One reader.read() settles: done, a rejection, or a chunk whose lines are
\* processed in order.
StreamRead ==
    /\ call.transport = "stream"
    /\ call.outcome = "reading"
    /\ call' =
          IF call.chunks = <<>>
          THEN IF call.abort
               THEN [call EXCEPT
                        !.log = Append(@, Callback("onError", "network", 0)),
                        !.outcome = "returned"]
               ELSE [call EXCEPT !.outcome = "returned"]
          ELSE LET r == ProcessLines(Head(call.chunks), call.log)
               IN  [call EXCEPT
                      !.chunks = Tail(@),
                      !.seen = @ \o Head(call.chunks),
                      !.log = r.log,
                      !.outcome = IF r.returned THEN "returned" ELSE "reading"]
    /\ GatewayFrame

\* sendMessageStream with a demo token, up to the first timer.
StreamDemoStart ==
    /\ call.transport = "stream" /\ IsDemoSession(token, currentChat)
    /\ call.outcome = "pending"
    /\ call' = [call EXCEPT
                  !.log = Append(@, Callback("onMessage", "connected", 0)),
                  !.outcome = "demoTimer"]
    /\ GatewayFrame

\* A timer of the demo loop expires: messages[i] is handed over; after the
\* last one onComplete is called.
StreamDemoStep ==
    /\ call.transport = "stream"
    /\ call.outcome = "demoTimer"
    /\ LET selected == Slice([j \in 1..Len(demoMessages) |-> j], call.count)
           handed == Append(call.log,
                        Callback("onMessage", "message", selected[call.i + 1]))
       IN  call' =
             IF call.i + 1 < Len(selected)
             THEN [call EXCEPT !.log = handed, !.i = @ + 1]
             ELSE [call EXCEPT
                     !.log = Append(handed,
                                Callback("onComplete", "complete", 0)),
                     !.i = @ + 1, !.outcome = "returned"]
    /\ GatewayFrame

GatewayNext ==
    \/ PlainSettle
    \/ StreamOpen
    \/ StreamRead
    \/ StreamDemoStart
    \/ StreamDemoStep

GatewaySpec == GatewayInit /\ [][GatewayNext]_vars

\* ------------------------------------------------------------------------
\* Properties of the transports
\* ------------------------------------------------------------------------
\* The call is one of sendMessageStream to the real backend.
RealStream == call.transport = "stream" /\ ~call.demo

\* An error record is among the lines read so far.
ErrorSeen == \E j \in 1..Len(call.seen) : call.seen[j].kind = "error"

C16_CompleteTerminates ==
    call.transport = "stream" =>
        \A j \in 1..Len(call.log) :
            call.log[j].cb = "onComplete" => j = Len(call.log)

\* onMessage was called right after onComplete.
C16_CallbackAfterComplete ==
    /\ RealStream
    /\ \E j \in 1..(Len(call.log) - 1) :
          call.log[j].cb = "onComplete" /\ call.log[j + 1].cb = "onMessage"

\* The first index of q whose element satisfies P, or Len(q) + 1.
FirstWhere(q, P(_)) ==
    IF \E j \in 1..Len(q) : P(q[j])
    THEN CHOOSE j \in 1..Len(q) :
             P(q[j]) /\ \A h \in 1..(j - 1) : ~P(q[h])
    ELSE Len(q) + 1

\* The payloads of the message elements of q that lie after the first
\* element satisfying Opens and before the next one satisfying Closes.
PayloadsBetween(q, Opens(_), Closes(_), IsMessage(_)) ==
    LET rest == SubSeq(q, FirstWhere(q, Opens) + 1, Len(q))
        window == SubSeq(rest, 1, FirstWhere(rest, Closes) - 1)
        found == SelectSeq(window, IsMessage)
    IN  [j \in 1..Len(found) |-> found[j].p]

\* The records sent up to the first error record, which ends the stream.
UpToError(sent) ==
    SubSeq(sent, 1, Min(Len(sent),
                        FirstWhere(sent, LAMBDA l : l.kind = "error")))

\* The payloads of the message records sent between connected and complete
\* (or an error record).
Expected ==
    PayloadsBetween(UpToError(call.sent),
        LAMBDA l : l.kind = "connected",
        LAMBDA l : l.kind \in {"complete", "error"},
        LAMBDA l : l.kind = "message")

\* The payloads handed to onMessage between the connected callback and
\* onComplete (or onError).
Delivered ==
    PayloadsBetween(call.log,
        LAMBDA e : e.type = "connected",
        LAMBDA e : e.cb \in {"onComplete", "onError"},
        LAMBDA e : e.type = "message")

\* C17: when the stream has been read to its end, the message records sent
\* between connected and complete have each been handed to onMessage once,
\* with their payload, in the order of arrival.
C17_PassThrough ==
    (RealStream /\ call.outcome = "returned") => Delivered = Expected

\* A message record that arrived in two chunks was not handed to onMessage.
C17_SplitRecordDropped ==
    /\ RealStream /\ call.outcome = "returned"
    /\ call.cut > 0
    /\ Len(Delivered) < Len(Expected)

\* The terminal callbacks of a log: the calls of onComplete and onError.
Terminals(log) ==
    SelectSeq(log, LAMBDA e : e.cb \in {"onComplete", "onError"})

\* C28: a call of sendMessageStream that has ended has made exactly one
\* terminal callback: one call of onComplete or one call of onError, not
\* both, not one of them twice, and not none.
C28_OneTerminal ==
    (call.transport = "stream" /\ call.outcome = "returned") =>
        Len(Terminals(call.log)) = 1

\* A stream answered with 200 has ended after onComplete and then onError
\* were both called.
C28_CompleteThenError ==
    /\ RealStream /\ call.outcome = "returned" /\ call.status = 200
    /\ Terminals(call.log) =
          <<Callback("onComplete", "complete", 0),
            Callback("onError", "error", 0)>>

\* A stream answered with 200 was read to its end, a message was handed
\* over, and neither onComplete nor onError was called.
NoTerminalCallback ==
    /\ RealStream /\ call.outcome = "returned" /\ call.status = 200
    /\ \E j \in 1..Len(call.log) : call.log[j].type = "message"
    /\ Terminals(call.log) = <<>>

\* Every record sent is a `data: ` line with a JSON object.
WellFormedStream(sent) ==
    \A j \in 1..Len(sent) : sent[j].kind \notin {"malformed", "other"}

\* The callbacks made when all records arrive whole in one chunk.
Unchunked(sent) == ProcessLines(sent, <<>>).log

\* C29: delivery does not depend on the chunking. When a stream of
\* well-formed records has been read to its end, the callbacks made are those
\* made when the same records arrive in one chunk, however the bytes were
\* split into reads.
C29_ChunkingIndependent ==
    (RealStream /\ call.status = 200 /\ ~call.abort
        /\ call.outcome = "returned" /\ WellFormedStream(call.sent)) =>
        call.log = Unchunked(call.sent)

\* A stream of well-formed records of which one straddled two reads has
\* ended with one callback less than the same records make in one chunk.
C29_StraddlingRecordLost ==
    /\ RealStream /\ call.status = 200 /\ ~call.abort
    /\ call.outcome = "returned" /\ WellFormedStream(call.sent)
    /\ call.cut > 0
    /\ Len(call.log) = Len(Unchunked(call.sent)) - 1
    /\ Callback("onMessage", "message", call.sent[call.cut].p)
          \in {Unchunked(call.sent)[j] : j \in 1..Len(Unchunked(call.sent))}

\* The lines without those that are not JSON after `data: `.
WithoutMalformed(lines) ==
    SelectSeq(lines, LAMBDA l : l.kind \notin {"malformed", "head"})

\* C18: a malformed record is skipped: the callbacks of a stream are those of
\* the same lines without the malformed ones, so no onError is called for it
\* and the records after it are processed.
C18_MalformedSkipped ==
    RealStream =>
        SelectSeq(call.log, LAMBDA e : e.type # "network")
            = ProcessLines(WithoutMalformed(call.seen), <<>>).log

\* A message record that followed a malformed one was handed to onMessage.
C18_RecordAfterMalformed ==
    /\ RealStream
    /\ \E h, j \in 1..Len(call.seen) :
          /\ h < j
          /\ call.seen[h].kind = "malformed"
          /\ call.seen[j].kind = "message"
          /\ call.log = <<Callback("onMessage", "message", call.seen[j].p)>>

\* C19: on each transport a call answered with 401 or 403 ends in an error:
\* it raises, or onError has been called.
C19_AuthErrorSurfaces ==
    (call.status \in {401, 403} /\ call.outcome \in {"returned", "raised"}) =>
        \/ call.outcome = "raised"
        \/ \E j \in 1..Len(call.log) : call.log[j].cb = "onError"

\* sendMessageStream, answered with 401, has returned without any callback.
C19_SilentOnUnauthorized ==
    /\ call.transport = "stream" /\ call.status = 401
    /\ call.outcome = "returned"
    /\ call.log = <<>>

\* ------------------------------------------------------------------------
\* Properties of the normalisation in chatApi.sendMessage
\* ------------------------------------------------------------------------
\* The body carries a multi-message flag under one of its spellings.
Flagged(r) == r.isMultiMessage \/ r.is_multi_message

\* The top-level messages list of r as fragments.
TopFragments(r) == [j \in 1..Len(r.messages[1]) |-> Some(r.messages[1][j])]

\* C6: a body with a multi-message flag and a top-level messages list of
\* length k > 1 is returned as a multi-message batch whose fragments are that
\* list, in order, with totalMessages = k.
C6_FlaggedTopList ==
    (result.by = "current" /\ Flagged(raw) /\ HasTopList(raw)) =>
        /\ result.kind = "multi"
        /\ result.messages = TopFragments(raw)
        /\ result.totalMessages = Len(raw.messages[1])

\* A flagged body with a top-level list was returned with other fragments.
C6_TopListReplaced ==
    /\ result.by = "current" /\ Flagged(raw) /\ HasTopList(raw)
    /\ result.kind = "multi"
    /\ result.messages # TopFragments(raw)

\* The text a single-message result must carry when `usable` decides which
\* fields count: data.content, then content, then the first extracted
\* fragment, then the placeholder.
ByPriority(r, usable(_)) ==
    IF usable(DataContent(r)) THEN DataContent(r)
    ELSE IF usable(r.content) THEN r.content
    ELSE IF Len(ExtractedMessages(r)) > 0 THEN ExtractedMessages(r)[1]
    ELSE Some("No content")

Present(v) == v # None

\* C7 as stated: a result that is not a multi-message batch is one fragment
\* whose text is the first present field in the priority order, a lower
\* field being used only when every higher one is absent.
C7_PriorityByAbsence ==
    (result.by = "current" /\ result.kind = "single") =>
        /\ Len(Fragments(result)) = 1
        /\ result.content = ByPriority(raw, Present)

\* C7 as amended: a result that is not a multi-message batch is one fragment
\* whose text is the first non-empty field in the priority order, a lower
\* field being used only when every higher one is absent or empty.
C7_PriorityByUsable ==
    (result.by = "current" /\ result.kind = "single") =>
        /\ Len(Fragments(result)) = 1
        /\ result.content = ByPriority(raw, Truthy)

\* The top-level content was used because data.content is there but empty.
C7_LowerFieldUsed ==
    /\ result.by = "current" /\ result.kind = "single"
    /\ raw.data # None /\ raw.data[1].content = Some("")
    /\ Truthy(raw.content)
    /\ result.content = raw.content

\* The body has no usable text field and no list to extract from.
NoUsableText(r) ==
    /\ ~Truthy(DataContent(r)) /\ ~Truthy(r.content)
    /\ ~HasTopList(r) /\ ~HasNestedList(r)

\* C8: for every parsed JSON object body of a 2xx answer, sendMessage raises
\* nothing and returns a batch of at least one fragment; with no usable text
\* field it returns the one fragment 'No content'.
C8_NeverRaises ==
    result.kind # "pending" =>
        /\ result.kind # "raised"
        /\ Len(Fragments(result)) >= 1
        /\ NoUsableText(raw) => Fragments(result) = <<Some("No content")>>

\* sendMessage raised on a body whose nested list holds a null.
C8_RaisedOnNull ==
    result.kind = "raised" /\ result.by = "current" /\ MapRaises(raw)

\* The nested data.messages list of r as fragments.
NestedFragments(r) ==
    [j \in 1..Len(r.data[1].messages[1]) |->
        EntryContent(r.data[1].messages[1][j])]

\* Rule 1 applies: a multi-message flag and a top-level list of length > 1.
Rule1(r) == Flagged(r) /\ HasTopList(r)

\* C20: for a body with both a flagged top-level list of length > 1 and a
\* nested data.messages list of length > 1 rule 1 wins, so the fragments
\* returned are the top-level list; the nested list is returned only when
\* rule 1 does not apply.
C20_RuleOrder ==
    (result.by = "current" /\ HasNestedList(raw)) =>
        /\ Rule1(raw) =>
              result.kind = "multi" /\ result.messages = TopFragments(raw)
        /\ (result.kind = "multi"
              /\ result.messages = NestedFragments(raw)) =>
              \/ ~Rule1(raw)
              \/ NestedFragments(raw) = TopFragments(raw)

\* For a body to which rule 1 applies the nested list was returned.
C20_NestedOverTop ==
    /\ result.by = "current" /\ Rule1(raw) /\ HasNestedList(raw)
    /\ result.kind = "multi"
    /\ result.messages = NestedFragments(raw)
    /\ result.totalMessages = Len(raw.data[1].messages[1])

\* C26: every fragment of every batch that chatApi.sendMessage returns is a
\* non-empty text, whatever the shape of the body, nested lists of objects
\* included.
C26_FragmentsAreText ==
    (result.by = "current" /\ result.kind \in {"multi", "single"}) =>
        \A j \in 1..Len(Fragments(result)) : Truthy(Fragments(result)[j])

\* chatApi.sendMessage has returned a batch from a nested list in which an
\* entry object has no content: that fragment is undefined, next to one that
\* is a text.
C26_UndefinedFragment ==
    /\ result.by = "current" /\ result.kind = "multi"
    /\ HasNestedList(raw)
    /\ \E j, k \in 1..Len(result.messages) :
          /\ result.messages[j] = None
          /\ raw.data[1].messages[1][j].kind = "object"
          /\ Truthy(result.messages[k])

====
